---- MODULE Spec2Model ----
(***************************************************************************)
(* Model of server.js of the study-group portal: an Express application    *)
(* with session authentication, a documents store (rows + files on disk),  *)
(* and a knowledge store (articles + comments).                            *)
(*                                                                         *)
(* Every HTTP request in flight occupies a slot of `req`; the response it   *)
(* is answered with is `resp`.  A request is handled in                    *)
(* the steps in which Node runs it: the synchronous part that runs when    *)
(* the request arrives (middleware chain up to the first asynchronous      *)
(* call), then one step per database statement / awaited promise, the      *)
(* statement being executed together with the callback that consumes its   *)
(* result.  Steps of different requests interleave freely.                 *)
(*                                                                         *)
(* Strings the code takes apart (file names) are sequences of one-letter   *)
(* strings, so that extname, basename, replace and toLowerCase are         *)
(* computed and not assumed.                                               *)
(***************************************************************************)
EXTENDS Integers, Sequences, FiniteSets, TLC

\* ------------------------------------------------------------------ bounds
MaxDocs == 2
MaxArticles == 2
MaxComments == 1
MaxTicks == 1
MaxGateRows == 1

\* CURRENT_TIMESTAMP has a resolution of one second, Date.now() of one ms.
MsPerSecond == 1000

\* ------------------------------------------------------------ input values
Slots == {"r1", "r2"}
Sessions == {"s1"}
Usernames == {"", "alice"}
Passwords == {"p", "q"}
Titles == {"", "t"}
Contents == {"", "c"}

\* multipart file parts a client may send: originalname, bytes and their size
FileParts ==
  { [originalname |-> <<"+", ".", "T", "X", "T">>, bytes |-> "b1", size |-> 1],
    [originalname |-> <<"_", ".", "T", "X", "T">>, bytes |-> "b2", size |-> 1],
    [originalname |-> <<"_", ".", "T", "X", "T">>, bytes |-> "big", size |-> 10 * 1024 * 1024 + 1],
    [originalname |-> <<"a", ".", "E", "X", "E">>, bytes |-> "b1", size |-> 1] }

\* the file parts of an allowed type and size
GoodParts ==
  { [originalname |-> <<"+", ".", "T", "X", "T">>, bytes |-> "b1", size |-> 1] }

\* ------------------------------------------------------------- string code
UpperLetters ==
  <<"A","B","C","D","E","F","G","H","I","J","K","L","M",
    "N","O","P","Q","R","S","T","U","V","W","X","Y","Z">>
LowerLetters ==
  <<"a","b","c","d","e","f","g","h","i","j","k","l","m",
    "n","o","p","q","r","s","t","u","v","w","x","y","z">>
DigitChars == <<"0","1","2","3","4","5","6","7","8","9">>

Range(f) == { f[i] : i \in DOMAIN f }

\* String.prototype.toLowerCase, letter by letter
LowerChar(c) ==
  IF \E i \in DOMAIN UpperLetters : UpperLetters[i] = c
  THEN LowerLetters[CHOOSE i \in DOMAIN UpperLetters : UpperLetters[i] = c]
  ELSE c
toLowerCase(str) == [i \in DOMAIN str |-> LowerChar(str[i])]

\* position of the last "." of str, 0 when there is none
LastDot(str) ==
  IF \E i \in DOMAIN str : str[i] = "."
  THEN CHOOSE i \in DOMAIN str : str[i] = "." /\ \A j \in DOMAIN str : j > i => str[j] # "."
  ELSE 0

\* path.extname: from the last "." on; "" when there is none or the name starts with it
extname(str) ==
  IF LastDot(str) <= 1 THEN <<>> ELSE SubSeq(str, LastDot(str), Len(str))

\* path.basename(name, ext): the name without the trailing ext
basename(str, ext) ==
  IF Len(ext) > 0 /\ Len(ext) < Len(str)
     /\ SubSeq(str, Len(str) - Len(ext) + 1, Len(str)) = ext
  THEN SubSeq(str, 1, Len(str) - Len(ext))
  ELSE str

\* basename.replace(/[^a-zA-Z0-9-_]/g, '_')
SafeChars == Range(UpperLetters) \cup Range(LowerLetters) \cup Range(DigitChars) \cup {"-", "_"}
safeBasename(str) == [i \in DOMAIN str |-> IF str[i] \in SafeChars THEN str[i] ELSE "_"]

\* template literal conversion of a non-negative number to decimal digits
RECURSIVE NumToString(_)
NumToString(n) ==
  IF n < 10 THEN <<DigitChars[n + 1]>>
  ELSE NumToString(n \div 10) \o <<DigitChars[(n % 10) + 1]>>

\* multer.diskStorage filename + destination: `uploads/${safeBasename}_${timestamp}${ext}`
StoredPath(originalname, timestamp) ==
  <<"uploads/">>
    \o safeBasename(basename(originalname, extname(originalname)))
    \o <<"_">> \o NumToString(timestamp) \o extname(originalname)

\* multer fileFilter
allowedTypes ==
  { <<".", "p", "d", "f">>, <<".", "d", "o", "c">>, <<".", "d", "o", "c", "x">>,
    <<".", "p", "p", "t">>, <<".", "p", "p", "t", "x">>, <<".", "x", "l", "s", "x">>,
    <<".", "x", "l", "s">>, <<".", "t", "x", "t">> }
fileFilter(originalname) == toLowerCase(extname(originalname)) \in allowedTypes

\* bcrypt.hash / bcrypt.compare
BcryptHash(password) == <<"$2b$10$", password>>
BcryptCompare(password, hash) == hash = BcryptHash(password)

\* ------------------------------------------------------------------- state
VARIABLES
  users, userSeq,          \* table users and its AUTOINCREMENT counter
  sessions,                \* session store: session id -> [userId, username]
  documents, docSeq,       \* table documents
  files,                   \* uploads directory: set of [path, bytes], one per path
  articles, artSeq,        \* table articles
  comments, cmtSeq,        \* table comments
  now,                     \* wall clock in milliseconds
  req,                     \* requests in flight, one per slot
  resp,                    \* the response sent last
  bound,                   \* history: per session, <<u>> for the latest successful login
                           \*          with no logout completed since, else <<>>
  uploaded,                \* history: [id, bytes, originalname] of each upload that responded success
  deletedOK                \* history: ids whose DELETE responded success

stores == <<users, userSeq, documents, docSeq, files, articles, artSeq, comments, cmtSeq>>
docStore == <<documents, docSeq, files>>
knowStore == <<articles, artSeq, comments, cmtSeq>>
userStore == <<users, userSeq>>
history == <<bound, uploaded, deletedOK>>
vars == <<users, userSeq, sessions, documents, docSeq, files, articles, artSeq,
          comments, cmtSeq, now, req, resp, bound, uploaded, deletedOK>>

NoSession == [userId |-> 0, username |-> ""]
Idle == [pc |-> "idle", sid |-> "", route |-> "", arg |-> <<>>, user |-> "", tmp |-> <<>>]
NoResponse == [sid |-> "", route |-> "", arg |-> <<>>, status |-> 0, out |-> <<>>]

Init ==
  /\ users = {} /\ userSeq = 0
  /\ sessions = [s \in Sessions |-> NoSession]
  /\ documents = {} /\ docSeq = 0
  /\ files = {}
  /\ articles = {} /\ artSeq = 0
  /\ comments = {} /\ cmtSeq = 0
  /\ now = 0
  /\ req = [r \in Slots |-> Idle]
  /\ resp = NoResponse
  /\ bound = [s \in Sessions |-> <<>>]
  /\ uploaded = {}
  /\ deletedOK = {}

\* --------------------------------------------------------- request plumbing
\* a request arrives (express-session loads the session, the route's chain runs up
\* to its first asynchronous call) and waits at pc with its local values in tmp
ArriveGoto(r, s, route, arg, pc, tmp) ==
  /\ req' = [req EXCEPT ![r] = [pc |-> pc, sid |-> s, route |-> route, arg |-> arg,
                                user |-> sessions[s].username, tmp |-> tmp]]
  /\ UNCHANGED resp

\* res.status(st).json(body) / res.redirect / res.download: the response is sent
\* and the request is over
Respond(r, st, body) ==
  /\ resp' = [sid |-> req[r].sid, route |-> req[r].route, arg |-> req[r].arg,
              status |-> st, out |-> body]
  /\ req' = [req EXCEPT ![r] = Idle]

\* a request that is answered in the step it arrives in
ArriveRespond(r, s, route, arg, st, body) ==
  /\ resp' = [sid |-> s, route |-> route, arg |-> arg, status |-> st, out |-> body]
  /\ UNCHANGED req

\* the request goes on to its next asynchronous step
Goto(r, pc, tmp) ==
  /\ req' = [req EXCEPT ![r] = [@ EXCEPT !.pc = pc, !.tmp = tmp]]
  /\ UNCHANGED resp

InFlight(route) == Cardinality({ r \in Slots : req[r].route = route })

\* the clock advances by a millisecond
TickMs ==
  /\ now' = now + 1
  /\ UNCHANGED <<stores, sessions, req, resp, history>>

\* the clock advances to the start of the next second
TickSecond ==
  /\ now' = (now \div MsPerSecond + 1) * MsPerSecond
  /\ UNCHANGED <<stores, sessions, req, resp, history>>

\* a gate that lets every request through
NoGate(s) == TRUE
\* requireAuth: req.session.userId is truthy
requireAuth(s) == sessions[s].userId # 0


\* res.redirect('/login')
Redirect(r, s, route, arg) == ArriveRespond(r, s, route, arg, 302, <<>>)

\* ------------------------------------------------------ session authenticator
UserByName(u) == { row \in users : row.username = u }

\* POST /api/register: SELECT by username, then the callback
Register(r, s, u, p) ==
  /\ req[r].pc = "idle"
  /\ IF UserByName(u) # {}
     THEN ArriveRespond(r, s, "POST /api/register", [username |-> u, password |-> p], 409, <<>>)
     ELSE ArriveGoto(r, s, "POST /api/register", [username |-> u, password |-> p],
                     "register_hash", <<>>)
  /\ UNCHANGED <<stores, sessions, now, history>>

\* await bcrypt.hash(password, 10) resolves; the INSERT is queued
RegisterHash(r) ==
  /\ req[r].pc = "register_hash"
  /\ Goto(r, "register_insert", <<BcryptHash(req[r].arg.password)>>)
  /\ UNCHANGED <<stores, sessions, now, history>>

\* INSERT INTO users: username is UNIQUE, a duplicate fails the statement
RegisterInsert(r) ==
  /\ req[r].pc = "register_insert"
  /\ IF UserByName(req[r].arg.username) # {}
     THEN /\ Respond(r, 500, <<>>)
          /\ UNCHANGED userStore
     ELSE /\ users' = users \cup { [id |-> userSeq + 1, username |-> req[r].arg.username,
                                    password |-> req[r].tmp[1]] }
          /\ userSeq' = userSeq + 1
          /\ Respond(r, 201, <<>>)
  /\ UNCHANGED <<docStore, knowStore, sessions, now, history>>

\* POST /api/login: SELECT by username, then the callback up to the await
Login(r, s, u, p) ==
  /\ req[r].pc = "idle"
  /\ IF UserByName(u) = {}
     THEN ArriveRespond(r, s, "POST /api/login", [username |-> u, password |-> p], 401, <<>>)
     ELSE \E user \in UserByName(u) :
            ArriveGoto(r, s, "POST /api/login", [username |-> u, password |-> p],
                       "login_compare", <<user>>)
  /\ UNCHANGED <<stores, sessions, now, history>>

\* req.session.userId = user.id; req.session.username = user.username
BindSession(q) == [userId |-> q.tmp[1].id, username |-> q.tmp[1].username]

\* await bcrypt.compare(password, user.password) resolves
LoginCompare(r) ==
  /\ req[r].pc = "login_compare"
  /\ IF BcryptCompare(req[r].arg.password, req[r].tmp[1].password)
     THEN /\ sessions' = [sessions EXCEPT ![req[r].sid] = BindSession(req[r])]
          /\ bound' = [bound EXCEPT ![req[r].sid] = <<req[r].arg.username>>]
          /\ Respond(r, 200, <<[username |-> req[r].tmp[1].username]>>)
     ELSE /\ Respond(r, 401, <<>>)
          /\ UNCHANGED <<sessions, bound>>
  /\ UNCHANGED <<stores, now, uploaded, deletedOK>>

\* a logout that leaves the session as it is
KeepSession(s) == sessions
\* req.session.destroy
DestroySession(s) == [sessions EXCEPT ![s] = NoSession]

\* POST /api/logout
Logout(r, s) ==
  /\ req[r].pc = "idle"
  /\ sessions' = DestroySession(s)
  /\ bound' = [bound EXCEPT ![s] = <<>>]
  /\ ArriveRespond(r, s, "POST /api/logout", <<>>, 200, <<>>)
  /\ UNCHANGED <<stores, now, uploaded, deletedOK>>

\* GET /api/auth_status
AuthStatusBody(s) ==
  IF sessions[s].userId # 0
  THEN <<[authenticated |-> TRUE, username |-> sessions[s].username]>>
  ELSE <<[authenticated |-> FALSE]>>
AuthStatus(r, s) ==
  /\ req[r].pc = "idle"
  /\ ArriveRespond(r, s, "GET /api/auth_status", <<>>, 200, AuthStatusBody(s))
  /\ UNCHANGED <<stores, sessions, now, history>>


\* ------------------------------------------------------------ document store
\* ORDER BY <column> DESC, key being the column's value of each row: every order
\* of the rows in which key never increases (rows with equal keys come in an order
\* SQL leaves open)
OrderByDesc(rows, key) ==
  { sq \in [1..Cardinality(rows) -> rows] :
      /\ \A i, j \in DOMAIN sq : i # j => sq[i] # sq[j]
      /\ \A i, j \in DOMAIN sq : i < j => key[sq[i]] >= key[sq[j]] }
\* ORDER BY <column> ASC
OrderByAsc(rows, key) ==
  { sq \in [1..Cardinality(rows) -> rows] :
      /\ \A i, j \in DOMAIN sq : i # j => sq[i] # sq[j]
      /\ \A i, j \in DOMAIN sq : i < j => key[sq[i]] <= key[sq[j]] }

\* CURRENT_TIMESTAMP
CurrentTimestamp == now \div MsPerSecond
\* Date.now()
DateNow == now

UploadDate(rows) == [row \in rows |-> row.upload_date]
CreatedAt(rows) == [row \in rows |-> row.created_at]

DocById(id) == { row \in documents : row.id = id }
existsSync(path) == \E f \in files : f.path = path
ReadFile(path) == (CHOOSE f \in files : f.path = path).bytes
WriteFile(path, bytes) == { f \in files : f.path # path } \cup { [path |-> path, bytes |-> bytes] }
unlinkSync(path) == { f \in files : f.path # path }

\* GET /api/documents
ListDocuments(r, s) ==
  /\ req[r].pc = "idle"
  /\ IF requireAuth(s)
     THEN ArriveGoto(r, s, "GET /api/documents", <<>>, "documents_all", <<>>)
     ELSE Redirect(r, s, "GET /api/documents", <<>>)
  /\ UNCHANGED <<stores, sessions, now, history>>

\* SELECT * FROM documents ORDER BY upload_date DESC
DocumentsAll(r) ==
  /\ req[r].pc = "documents_all"
  /\ \E rows \in OrderByDesc(documents, UploadDate(documents)) : Respond(r, 200, rows)
  /\ UNCHANGED <<stores, sessions, now, history>>

\* limits.fileSize
fileSizeLimit == 10 * 1024 * 1024

\* POST /api/upload with a file part: requireAuth, then multer's fileFilter and
\* filename as the part's header is parsed
Upload(r, s, part, title) ==
  /\ req[r].pc = "idle"
  /\ LET arg == [file |-> part, title |-> title] IN
     IF ~requireAuth(s)
     THEN Redirect(r, s, "POST /api/upload", arg)
     ELSE IF ~fileFilter(part.originalname)
     THEN ArriveRespond(r, s, "POST /api/upload", arg, 500, <<>>)
     ELSE ArriveGoto(r, s, "POST /api/upload", arg, "upload_store",
                     <<StoredPath(part.originalname, DateNow)>>)
  /\ UNCHANGED <<stores, sessions, now, history>>

\* POST /api/upload without a file part
UploadNoFile(r, s, title) ==
  /\ req[r].pc = "idle"
  /\ IF requireAuth(s)
     THEN ArriveRespond(r, s, "POST /api/upload", [title |-> title], 400, <<>>)
     ELSE Redirect(r, s, "POST /api/upload", [title |-> title])
  /\ UNCHANGED <<stores, sessions, now, history>>

\* multer has written the part to its path (removing it again when the part is
\* over the size limit, which the error handler answers); then the route's handler runs
UploadStore(r) ==
  /\ req[r].pc = "upload_store"
  /\ IF req[r].arg.file.size > fileSizeLimit
     THEN /\ files' = unlinkSync(req[r].tmp[1])
          /\ Respond(r, 400, <<>>)
     ELSE /\ files' = WriteFile(req[r].tmp[1], req[r].arg.file.bytes)
          /\ IF req[r].arg.title = "" \/ req[r].user = ""
             THEN Respond(r, 400, <<>>)
             ELSE Goto(r, "upload_insert", req[r].tmp)
  /\ UNCHANGED <<userStore, documents, docSeq, knowStore, sessions, now, history>>

\* INSERT INTO documents (title, file_path, original_filename, author)
UploadInsert(r) ==
  /\ req[r].pc = "upload_insert"
  /\ documents' = documents \cup
       { [id |-> docSeq + 1, title |-> req[r].arg.title, file_path |-> req[r].tmp[1],
          original_filename |-> req[r].arg.file.originalname, author |-> req[r].user,
          upload_date |-> CurrentTimestamp] }
  /\ docSeq' = docSeq + 1
  /\ uploaded' = uploaded \cup
       { [id |-> docSeq + 1, bytes |-> req[r].arg.file.bytes,
          originalname |-> req[r].arg.file.originalname] }
  /\ Respond(r, 200, <<[id |-> docSeq + 1]>>)
  /\ UNCHANGED <<userStore, files, knowStore, sessions, now, bound, deletedOK>>

\* GET /api/download/:id
Download(r, s, id) ==
  /\ req[r].pc = "idle"
  /\ IF requireAuth(s)
     THEN ArriveGoto(r, s, "GET /api/download/:id", [id |-> id], "download_get", <<>>)
     ELSE Redirect(r, s, "GET /api/download/:id", [id |-> id])
  /\ UNCHANGED <<stores, sessions, now, history>>

\* what the SELECT by id and its callback answer in the current state
DownloadResult(id) ==
  IF DocById(id) = {} THEN [status |-> 404, out |-> <<>>]
  ELSE LET row == CHOOSE row \in DocById(id) : TRUE IN
       IF ~existsSync(row.file_path) THEN [status |-> 404, out |-> <<>>]
       ELSE [status |-> 200,
             out |-> <<[bytes |-> ReadFile(row.file_path), filename |-> row.original_filename]>>]

DownloadGet(r) ==
  /\ req[r].pc = "download_get"
  /\ Respond(r, DownloadResult(req[r].arg.id).status, DownloadResult(req[r].arg.id).out)
  /\ UNCHANGED <<stores, sessions, now, history>>

\* DELETE /api/documents/:id
Delete(r, s, id) ==
  /\ req[r].pc = "idle"
  /\ IF requireAuth(s)
     THEN ArriveGoto(r, s, "DELETE /api/documents/:id", [id |-> id], "delete_get", <<>>)
     ELSE Redirect(r, s, "DELETE /api/documents/:id", [id |-> id])
  /\ UNCHANGED <<stores, sessions, now, history>>

\* SELECT by id and its callback: 404, or unlink the file if present and queue the DELETE
DeleteGet(r) ==
  /\ req[r].pc = "delete_get"
  /\ IF DocById(req[r].arg.id) = {}
     THEN /\ Respond(r, 404, <<>>)
          /\ UNCHANGED files
     ELSE /\ files' = unlinkSync((CHOOSE row \in DocById(req[r].arg.id) : TRUE).file_path)
          /\ Goto(r, "delete_run", <<>>)
  /\ UNCHANGED <<userStore, documents, docSeq, knowStore, sessions, now, history>>

\* a delete that removes the file only
KeepRow(id) == documents
\* DELETE FROM documents WHERE id = ?
DeleteRow(id) == { row \in documents : row.id # id }

DeleteRun(r) ==
  /\ req[r].pc = "delete_run"
  /\ documents' = DeleteRow(req[r].arg.id)
  /\ deletedOK' = deletedOK \cup {req[r].arg.id}
  /\ Respond(r, 200, <<>>)
  /\ UNCHANGED <<userStore, docSeq, files, knowStore, sessions, now, bound, uploaded>>


\* ----------------------------------------------------------- knowledge store
ArticleById(id) == { row \in articles : row.id = id }
CommentsOf(id) == { row \in comments : row.article_id = id }

\* GET /api/articles
ListArticles(r, s) ==
  /\ req[r].pc = "idle"
  /\ IF requireAuth(s)
     THEN ArriveGoto(r, s, "GET /api/articles", <<>>, "articles_all", <<>>)
     ELSE Redirect(r, s, "GET /api/articles", <<>>)
  /\ UNCHANGED <<stores, sessions, now, history>>

\* SELECT * FROM articles ORDER BY created_at DESC
ArticlesAll(r) ==
  /\ req[r].pc = "articles_all"
  /\ \E rows \in OrderByDesc(articles, CreatedAt(articles)) : Respond(r, 200, rows)
  /\ UNCHANGED <<stores, sessions, now, history>>

\* GET /api/articles/:id
GetArticle(r, s, id) ==
  /\ req[r].pc = "idle"
  /\ IF requireAuth(s)
     THEN ArriveGoto(r, s, "GET /api/articles/:id", [id |-> id], "article_get", <<>>)
     ELSE Redirect(r, s, "GET /api/articles/:id", [id |-> id])
  /\ UNCHANGED <<stores, sessions, now, history>>

\* SELECT * FROM articles WHERE id = ?
ArticleGet(r) ==
  /\ req[r].pc = "article_get"
  /\ IF ArticleById(req[r].arg.id) = {}
     THEN Respond(r, 404, <<>>)
     ELSE \E row \in ArticleById(req[r].arg.id) : Respond(r, 200, <<row>>)
  /\ UNCHANGED <<stores, sessions, now, history>>

\* GET /api/articles/:id/comments
ListComments(r, s, id) ==
  /\ req[r].pc = "idle"
  /\ IF requireAuth(s)
     THEN ArriveGoto(r, s, "GET /api/articles/:id/comments", [id |-> id], "comments_all", <<>>)
     ELSE Redirect(r, s, "GET /api/articles/:id/comments", [id |-> id])
  /\ UNCHANGED <<stores, sessions, now, history>>

\* SELECT * FROM comments WHERE article_id = ? ORDER BY created_at ASC
CommentsAll(r) ==
  /\ req[r].pc = "comments_all"
  /\ \E rows \in OrderByAsc(CommentsOf(req[r].arg.id), CreatedAt(CommentsOf(req[r].arg.id))) : Respond(r, 200, rows)
  /\ UNCHANGED <<stores, sessions, now, history>>

\* POST /api/articles: requireAuth, then the validation of title, content and author
CreateArticle(r, s, title, content) ==
  /\ req[r].pc = "idle"
  /\ LET arg == [title |-> title, content |-> content] IN
     IF ~requireAuth(s)
     THEN Redirect(r, s, "POST /api/articles", arg)
     ELSE IF title = "" \/ content = "" \/ sessions[s].username = ""
     THEN ArriveRespond(r, s, "POST /api/articles", arg, 400, <<>>)
     ELSE ArriveGoto(r, s, "POST /api/articles", arg, "article_insert", <<>>)
  /\ UNCHANGED <<stores, sessions, now, history>>

\* INSERT INTO articles (title, content, author)
ArticleInsert(r) ==
  /\ req[r].pc = "article_insert"
  /\ articles' = articles \cup
       { [id |-> artSeq + 1, title |-> req[r].arg.title, content |-> req[r].arg.content,
          author |-> req[r].user, created_at |-> CurrentTimestamp] }
  /\ artSeq' = artSeq + 1
  /\ Respond(r, 200, <<[id |-> artSeq + 1]>>)
  /\ UNCHANGED <<userStore, docStore, comments, cmtSeq, sessions, now, history>>

\* POST /api/articles/:id/comments: requireAuth, then the validation of content and author
CreateComment(r, s, id, content) ==
  /\ req[r].pc = "idle"
  /\ LET arg == [id |-> id, content |-> content] IN
     IF ~requireAuth(s)
     THEN Redirect(r, s, "POST /api/articles/:id/comments", arg)
     ELSE IF content = "" \/ sessions[s].username = ""
     THEN ArriveRespond(r, s, "POST /api/articles/:id/comments", arg, 400, <<>>)
     ELSE ArriveGoto(r, s, "POST /api/articles/:id/comments", arg, "comment_insert", <<>>)
  /\ UNCHANGED <<stores, sessions, now, history>>

\* INSERT INTO comments (article_id, content, author): the foreign key is not enforced
CommentInsert(r) ==
  /\ req[r].pc = "comment_insert"
  /\ comments' = comments \cup
       { [id |-> cmtSeq + 1, article_id |-> req[r].arg.id, content |-> req[r].arg.content,
          author |-> req[r].user, created_at |-> CurrentTimestamp] }
  /\ cmtSeq' = cmtSeq + 1
  /\ Respond(r, 200, <<[id |-> cmtSeq + 1]>>)
  /\ UNCHANGED <<userStore, docStore, articles, artSeq, sessions, now, history>>

\* ----------------------------------------------------------- specifications
\* Each next-state relation takes the slots R that requests may occupy (the number
\* of requests handled concurrently) and the values clients send; the bounds cap
\* the AUTOINCREMENT counters (the requests that may insert a row) and the clock.
DocIds == 1..MaxDocs
ArticleIds == 1..MaxArticles

\* registration, login and logout
LoginNext(R, U, P) ==
  \/ \E r \in R, s \in Sessions, u \in U, p \in P : Register(r, s, u, p)
  \/ \E r \in R : RegisterHash(r)
  \/ \E r \in R : RegisterInsert(r)
  \/ \E r \in R, s \in Sessions, u \in U, p \in P : Login(r, s, u, p)
  \/ \E r \in R : LoginCompare(r)
  \/ \E r \in R, s \in Sessions : Logout(r, s)

AuthNext(R, U, P) ==
  \/ LoginNext(R, U, P)
  \/ \E r \in R, s \in Sessions : AuthStatus(r, s)

DocNext(R, Parts, T, maxDocs) ==
  \/ \E r \in R, s \in Sessions : ListDocuments(r, s)
  \/ \E r \in R : DocumentsAll(r)
  \/ \E r \in R, s \in Sessions, part \in Parts, title \in T :
       /\ requireAuth(s) => docSeq + InFlight("POST /api/upload") < maxDocs
       /\ Upload(r, s, part, title)
  \/ \E r \in R, s \in Sessions, title \in T : UploadNoFile(r, s, title)
  \/ \E r \in R : UploadStore(r)
  \/ \E r \in R : UploadInsert(r)
  \/ \E r \in R, s \in Sessions, id \in DocIds : Download(r, s, id)
  \/ \E r \in R : DownloadGet(r)
  \/ \E r \in R, s \in Sessions, id \in DocIds : Delete(r, s, id)
  \/ \E r \in R : DeleteGet(r)
  \/ \E r \in R : DeleteRun(r)

KnowNext(R, maxArticles, maxComments) ==
  \/ \E r \in R, s \in Sessions : ListArticles(r, s)
  \/ \E r \in R : ArticlesAll(r)
  \/ \E r \in R, s \in Sessions, id \in ArticleIds : GetArticle(r, s, id)
  \/ \E r \in R : ArticleGet(r)
  \/ \E r \in R, s \in Sessions, id \in ArticleIds : ListComments(r, s, id)
  \/ \E r \in R : CommentsAll(r)
  \/ \E r \in R, s \in Sessions, title \in Titles, content \in Contents :
       /\ requireAuth(s) => artSeq + InFlight("POST /api/articles") < maxArticles
       /\ CreateArticle(r, s, title, content)
  \/ \E r \in R : ArticleInsert(r)
  \/ \E r \in R, s \in Sessions, id \in ArticleIds, content \in Contents :
       /\ requireAuth(s) => cmtSeq + InFlight("POST /api/articles/:id/comments") < maxComments
       /\ CreateComment(r, s, id, content)
  \/ \E r \in R : CommentInsert(r)

ClockNext ==
  \/ now % MsPerSecond < MaxTicks /\ TickMs
  \/ now \div MsPerSecond < MaxTicks /\ TickSecond

\* the whole server
Next ==
  \/ AuthNext(Slots, Usernames, Passwords)
  \/ DocNext(Slots, FileParts, Titles, MaxDocs)
  \/ KnowNext(Slots, MaxArticles, MaxComments)
  \/ ClockNext
Spec == Init /\ [][Next]_vars

\* the session authenticator alone
SpecAuth == Init /\ [][AuthNext(Slots, Usernames, Passwords)]_vars

\* the document store behind the authenticator, one account, a millisecond clock
SpecDocs ==
  Init /\ [][ \/ LoginNext(Slots, {"alice"}, {"p"})
              \/ DocNext(Slots, FileParts, Titles, MaxDocs)
              \/ now < MaxTicks /\ TickMs ]_vars

\* the document store with well-formed uploads only
SpecDelete ==
  Init /\ [][ \/ LoginNext(Slots, {"alice"}, {"p"})
              \/ DocNext(Slots, GoodParts, {"t"}, MaxDocs)
              \/ now < MaxTicks /\ TickMs ]_vars

\* the knowledge store behind the authenticator, a clock of seconds
SpecKnow ==
  Init /\ [][ \/ LoginNext(Slots, Usernames, {"p"})
              \/ KnowNext(Slots, MaxArticles, MaxComments)
              \/ now \div MsPerSecond < MaxTicks /\ TickSecond ]_vars

\* every route, one request at a time, one account
SpecGate ==
  Init /\ [][ \/ AuthNext({"r1"}, {"alice"}, {"p"})
              \/ DocNext({"r1"}, FileParts, Titles, MaxGateRows)
              \/ KnowNext({"r1"}, MaxGateRows, MaxGateRows) ]_vars


\* ------------------------------------------------------------------- claims
ProtectedRoutes ==
  { "GET /api/documents", "POST /api/upload", "GET /api/download/:id",
    "DELETE /api/documents/:id", "GET /api/articles", "POST /api/articles",
    "GET /api/articles/:id", "GET /api/articles/:id/comments",
    "POST /api/articles/:id/comments" }

\* a step in which a request of session s arrives at a protected API route
ProtectedArrival(s) ==
  \E r \in Slots :
    \/ ListDocuments(r, s)
    \/ \E part \in FileParts, title \in Titles : Upload(r, s, part, title)
    \/ \E title \in Titles : UploadNoFile(r, s, title)
    \/ \E id \in DocIds : Download(r, s, id)
    \/ \E id \in DocIds : Delete(r, s, id)
    \/ ListArticles(r, s)
    \/ \E id \in ArticleIds : GetArticle(r, s, id)
    \/ \E id \in ArticleIds : ListComments(r, s, id)
    \/ \E title \in Titles, content \in Contents : CreateArticle(r, s, title, content)
    \/ \E id \in ArticleIds, content \in Contents : CreateComment(r, s, id, content)

\* C1: a request to a protected API route whose session has no bound user is
\* answered 401 Unauthorized (and not with a redirect to /login).
C1_UnboundSessionGets401 ==
  [][\A s \in Sessions :
       (sessions[s].userId = 0 /\ ProtectedArrival(s))
         => (resp'.sid = s /\ resp'.route \in ProtectedRoutes /\ resp'.status = 401)]_vars

\* C2: a request to a protected API route whose session has no bound user is over
\* in the step it arrives in, leaves the users, documents, articles and comments
\* tables and the uploads directory as they were, and is answered without any row
\* or file content.
C2_UnboundSessionTouchesNothing ==
  [][\A s \in Sessions :
       (sessions[s].userId = 0 /\ ProtectedArrival(s))
         => /\ UNCHANGED stores
            /\ UNCHANGED req
            /\ resp'.sid = s /\ resp'.route \in ProtectedRoutes
            /\ resp'.out = <<>>]_vars

\* an upload of a logged-out session was turned away while rows and a file exist
C2_Witness ==
  /\ resp.route = "POST /api/upload" /\ resp.status = 302
  /\ sessions[resp.sid].userId = 0
  /\ documents # {} /\ files # {} /\ articles # {} /\ comments # {}


\* C3: a register request is answered 201 Created or, its username being taken,
\* 409 Conflict, however its lookup, hash and insert steps interleave with those
\* of another register request for the same username, and the users table then
\* holds exactly one row for that username.
C3_RegisterCreatedOrConflict ==
  resp.route = "POST /api/register"
    => /\ resp.status \in {201, 409}
       /\ Cardinality(UserByName(resp.arg.username)) = 1

\* what auth_status is to report for a session with the login history h
ExpectedStatus(h) ==
  IF h = <<>> THEN <<[authenticated |-> FALSE]>>
  ELSE <<[authenticated |-> TRUE, username |-> h[1]]>>

\* C4: auth_status reports authenticated=true with username u exactly when the
\* latest successful login of the session was for u and no logout has completed
\* since; the identity bound to a session changes only in the step that answers a
\* successful login or a logout of that session, so a failed login and a register
\* leave it as it was.
C4_AuthStatusFollowsLogin ==
  /\ [](\A s \in Sessions : AuthStatusBody(s) = ExpectedStatus(bound[s]))
  /\ [][ /\ \A s \in Sessions :
              (resp' # resp /\ resp'.route = "GET /api/auth_status" /\ resp'.sid = s)
                => resp'.out = ExpectedStatus(bound[s])
         /\ \A s \in Sessions :
              sessions'[s] # sessions[s]
                => /\ resp' # resp /\ resp'.sid = s
                   /\ \/ resp'.route = "POST /api/login" /\ resp'.status = 200
                      \/ resp'.route = "POST /api/logout" ]_vars

\* a login with a wrong password was turned away in a session that stays bound
\* to alice, with a second account registered
C4_Witness ==
  /\ resp.route = "POST /api/login" /\ resp.status = 401
  /\ bound[resp.sid] = <<"alice">>
  /\ AuthStatusBody(resp.sid) = <<[authenticated |-> TRUE, username |-> "alice"]>>
  /\ Cardinality(users) = 2

\* C5: an authenticated upload whose extension is outside the allowed set is
\* answered 400 and creates neither a documents row nor a file.
C5_BadExtensionGets400 ==
  [][\A r \in Slots, s \in Sessions, part \in FileParts, title \in Titles :
       (requireAuth(s) /\ ~fileFilter(part.originalname) /\ Upload(r, s, part, title))
         => (resp'.status = 400 /\ UNCHANGED <<documents, files>>)]_vars

\* a DELETE of document id is being handled
Deleting(id) ==
  \E r \in Slots : req[r].route = "DELETE /api/documents/:id" /\ req[r].arg.id = id

\* C6: as long as no DELETE of d has been answered with success or is being
\* handled, a document d whose upload responded success is a row of the documents
\* table and its download answers 200 with the bytes and the original filename of
\* that upload.
C6_UploadedStaysDownloadable ==
  \A u \in uploaded :
    (u.id \notin deletedOK /\ ~Deleting(u.id))
      => /\ DocById(u.id) # {}
         /\ DownloadResult(u.id) =
              [status |-> 200, out |-> <<[bytes |-> u.bytes, filename |-> u.originalname]>>]

\* the handlers' steps that run once a DELETE of d has responded success: the
\* listing omits row d, the lookups of a download and of a DELETE of d answer 404
AfterDeleteHandlers ==
  \A r \in Slots :
    /\ DocumentsAll(r) => \A i \in DOMAIN resp'.out : resp'.out[i].id \notin deletedOK
    /\ (req[r].pc = "download_get" /\ req[r].arg.id \in deletedOK /\ DownloadGet(r))
         => resp'.status = 404
    /\ (req[r].pc = "delete_get" /\ req[r].arg.id \in deletedOK /\ DeleteGet(r))
         => resp'.status = 404

\* a download or a DELETE of a deleted document that is answered as it arrives is
\* answered 404
AfterDeleteArrivals ==
  \A r \in Slots, s \in Sessions, d \in deletedOK :
    ((Download(r, s, d) \/ Delete(r, s, d)) /\ UNCHANGED req) => resp'.status = 404

\* C7 as stated: once a DELETE of d has responded success, every later listing
\* omits row d and every later download and DELETE of d is answered 404.
C7_EveryLaterRequestGets404 ==
  [][AfterDeleteHandlers /\ AfterDeleteArrivals]_vars

\* C7 for the requests that requireAuth lets through: once a DELETE of d has
\* responded success the documents table has no row d, every listing answered from
\* then on omits d, and every download and DELETE of d that reaches its handler
\* from then on is answered 404.
C7_DeletedStaysGone ==
  /\ [](\A d \in deletedOK : DocById(d) = {} /\ DownloadResult(d).status = 404)
  /\ [][AfterDeleteHandlers]_vars

\* a download of a deleted document was answered 404 while another document is stored
C7_Witness ==
  /\ resp.route = "GET /api/download/:id" /\ resp.status = 404
  /\ resp.arg.id \in deletedOK
  /\ documents # {} /\ files # {}

\* C8: GET /api/articles lists the articles newest first: an article comes ahead
\* of every article created before it (the ids are handed out in creation order).
C8_ListingNewestFirst ==
  (resp.route = "GET /api/articles" /\ resp.status = 200)
    => \A i, j \in DOMAIN resp.out : i < j => resp.out[i].id > resp.out[j].id

\* C9: no two documents rows share a file_path.
C9_StoredPathUnique ==
  \A d1, d2 \in documents : d1.id # d2.id => d1.file_path # d2.file_path

\* C10: an authenticated upload that is rejected because its title or the
\* session's author is missing is answered 400 and creates neither a documents
\* row nor a file.
C10_RejectedUploadLeavesNoFile ==
  [][\A r \in Slots :
       ( /\ req[r].pc = "upload_store"
         /\ req[r].arg.title = "" \/ req[r].user = ""
         /\ req[r].arg.file.size <= fileSizeLimit
         /\ UploadStore(r) )
         => (resp'.status = 400 /\ UNCHANGED <<documents, files>>)]_vars

====
